---- MODULE Spec2Model ----
(***************************************************************************)
(* Cascading schema-type resolution and shape inference of ts-api-spec     *)
(* (src/src/infer-utilities.types.ts).                                     *)
(*                                                                         *)
(* The source is type-level TypeScript.  A type is modelled by the value   *)
(* it denotes: an object type is a record whose optional properties may    *)
(* be missing from its domain, an indexed access T[K] is Index(T, K), a    *)
(* conditional type `X extends Y ? A : B` is IF Extends..(X) THEN A ELSE B *)
(* and a violated type-parameter constraint (a compile error at the use    *)
(* site) is an error result.                                               *)
(***************************************************************************)
EXTENDS Naturals, FiniteSets, TLC

VARIABLES
  api,       \* the ApiSpec under resolution
  registry,  \* provider id -> provider descriptor
  last,      \* the operation that has just finished, with its result
  written,   \* history: provider id -> provider of the latest register
  first      \* history: the first call made since the registry last changed

vars == <<api, registry, last, written, first>>

(***************************************************************************)
(* Values                                                                  *)
(***************************************************************************)

\* The TypeScript type `undefined`: what indexing a missing optional
\* property yields.
Undefined == [undefined |-> TRUE]

\* T[K] for an object type T.
Index(obj, key) == IF key \in DOMAIN obj THEN obj[key] ELSE Undefined

\* Provider identifiers carried by a schema type in its `_provider` field.
ProviderIds == {"ts", "zod", "io-ts"}

\* SchemaType objects.
SchemaTypes == {[_provider |-> p] : p \in ProviderIds}

\* The default of every DefaultSchemaType type parameter.
ApiTypeScriptSchema == [_provider |-> "ts"]

\* Opaque provider-specific schema values.
Schemas == {[type |-> "string"]}

\* ApiBaseMetadata objects: schemaType is optional.
Metadatas ==
  {[description |-> "doc"]}
    \cup {[description |-> "doc", schemaType |-> st] : st \in SchemaTypes}

\* The empty object type.
EmptyObject == [k \in {} |-> Undefined]

\* The ways an optional property can occur in an object type.
Optional(key, values) == {EmptyObject} \cup {key :> v : v \in values}

\* ApiParameter / ApiDataParameter objects: a schema, optional metadata.
Parameters ==
  {[schema |-> s] @@ m : s \in Schemas, m \in Optional("metadata", Metadatas)}

\* What an entry or a body can hold: a parameter object or a bare schema.
EntryValues == Parameters \cup Schemas

\* ApiEntry: the name-keyed entry kinds of an endpoint.
ApiEntry == {"params", "query", "headers", "cookies", "responses"}

\* Entry names used in descriptions.
EntryParamNames == {"id"}

\* Entry names used in calls; "missing" is a key of no collection.
CallParamNames == EntryParamNames \cup {"missing"}

\* Endpoint names used in descriptions.
EndpointNames == {"getUser"}

\* Endpoint names used in calls.
CallEndpointNames == EndpointNames \cup {"nonexistentEndpoint"}

\* The data locations of an endpoint: none, a body, or one named entry.
EndpointLocations ==
  Optional("body", EntryValues)
    \cup {kind :> (name :> v) :
            kind \in ApiEntry, name \in EntryParamNames, v \in EntryValues}

\* ApiEndpoint objects.
Endpoints ==
  {m @@ l : m \in Optional("metadata", Metadatas), l \in EndpointLocations}

\* ApiSpec objects.
ApiSpecs ==
  {m @@ [endpoints |-> [n \in EndpointNames |-> ep]] :
     m \in Optional("metadata", Metadatas), ep \in Endpoints}

(***************************************************************************)
(* `extends` tests of the conditional types                                *)
(***************************************************************************)

ExtendsSchemaType(t) == "_provider" \in DOMAIN t

ExtendsApiBaseMetadata(t) == t # Undefined /\ "_provider" \notin DOMAIN t

ExtendsApiParameter(t) == "schema" \in DOMAIN t

(***************************************************************************)
(* Accessors of basic-utilities.types                                      *)
(***************************************************************************)

ApiGetEndpoint(Api, Endpoint) == Api.endpoints[Endpoint]

ApiGetEndpointBody(Api, Endpoint) == Index(ApiGetEndpoint(Api, Endpoint), "body")

(***************************************************************************)
(* Scope resolution                                                        *)
(***************************************************************************)

ApiGetSchemaType(Api, DefaultSchemaType) ==
  LET Meta == Index(Api, "metadata") IN
  IF ExtendsApiBaseMetadata(Meta)
  THEN LET Type == Index(Meta, "schemaType") IN
       IF ExtendsSchemaType(Type) THEN Type ELSE DefaultSchemaType
  ELSE DefaultSchemaType

\* Variant: endpoint metadata that sets no schemaType ends the resolution
\* with the default.
ApiGetEndpointSchemaType_StopsAtMetadata(Api, Endpoint, DefaultSchemaType) ==
  LET Meta == Index(ApiGetEndpoint(Api, Endpoint), "metadata") IN
  IF ExtendsApiBaseMetadata(Meta)
  THEN LET Type == Index(Meta, "schemaType") IN
       IF ExtendsSchemaType(Type) THEN Type ELSE DefaultSchemaType
  ELSE ApiGetSchemaType(Api, DefaultSchemaType)

ApiGetEndpointSchemaType(Api, Endpoint, DefaultSchemaType) ==
  LET Meta == Index(ApiGetEndpoint(Api, Endpoint), "metadata") IN
  IF ExtendsApiBaseMetadata(Meta)
  THEN LET Type == Index(Meta, "schemaType") IN
       IF ExtendsSchemaType(Type)
       THEN Type
       ELSE ApiGetSchemaType(Api, DefaultSchemaType)
  ELSE ApiGetSchemaType(Api, DefaultSchemaType)

\* Variant: a body that is no parameter object skips the endpoint level.
ApiGetEndpointBodySchemaType_SkipsEndpoint(Api, Endpoint, DefaultSchemaType) ==
  LET Param == ApiGetEndpointBody(Api, Endpoint) IN
  IF ExtendsApiParameter(Param)
  THEN LET Meta == Index(Param, "metadata") IN
       IF ExtendsApiBaseMetadata(Meta)
       THEN LET Type == Index(Meta, "schemaType") IN
            IF ExtendsSchemaType(Type)
            THEN Type
            ELSE ApiGetEndpointSchemaType(Api, Endpoint, DefaultSchemaType)
       ELSE ApiGetEndpointSchemaType(Api, Endpoint, DefaultSchemaType)
  ELSE ApiGetSchemaType(Api, DefaultSchemaType)

ApiGetEndpointBodySchemaType(Api, Endpoint, DefaultSchemaType) ==
  LET Param == ApiGetEndpointBody(Api, Endpoint) IN
  IF ExtendsApiParameter(Param)
  THEN LET Meta == Index(Param, "metadata") IN
       IF ExtendsApiBaseMetadata(Meta)
       THEN LET Type == Index(Meta, "schemaType") IN
            IF ExtendsSchemaType(Type)
            THEN Type
            ELSE ApiGetEndpointSchemaType(Api, Endpoint, DefaultSchemaType)
       ELSE ApiGetEndpointSchemaType(Api, Endpoint, DefaultSchemaType)
  ELSE ApiGetEndpointSchemaType(Api, Endpoint, DefaultSchemaType)

\* Variant: the endpoint's declaration is consulted before the parameter's.
ApiGetEndpointEntrySchemaType_EndpointFirst(Api, Endpoint, Entry, EntryParam, DefaultSchemaType) ==
  LET Param == ApiGetEndpoint(Api, Endpoint)[Entry][EntryParam]
      Outer == ApiGetEndpointSchemaType(Api, Endpoint, Undefined)
  IN
  IF Outer # Undefined THEN Outer
  ELSE IF ExtendsApiParameter(Param)
  THEN LET Meta == Index(Param, "metadata") IN
       IF ExtendsApiBaseMetadata(Meta)
       THEN LET Type == Index(Meta, "schemaType") IN
            IF ExtendsSchemaType(Type) THEN Type ELSE DefaultSchemaType
       ELSE DefaultSchemaType
  ELSE DefaultSchemaType

ApiGetEndpointEntrySchemaType(Api, Endpoint, Entry, EntryParam, DefaultSchemaType) ==
  LET Param == ApiGetEndpoint(Api, Endpoint)[Entry][EntryParam] IN
  IF ExtendsApiParameter(Param)
  THEN LET Meta == Index(Param, "metadata") IN
       IF ExtendsApiBaseMetadata(Meta)
       THEN LET Type == Index(Meta, "schemaType") IN
            IF ExtendsSchemaType(Type)
            THEN Type
            ELSE ApiGetEndpointSchemaType(Api, Endpoint, DefaultSchemaType)
       ELSE ApiGetEndpointSchemaType(Api, Endpoint, DefaultSchemaType)
  ELSE ApiGetEndpointSchemaType(Api, Endpoint, DefaultSchemaType)

\* Constraint `Endpoint extends keyof Api["endpoints"]`.
EndpointExists(Api, Endpoint) == Endpoint \in DOMAIN Api.endpoints

\* Constraint `EntryParam extends keyof ApiGetEndpoint<Api, Endpoint>[Entry]`;
\* keyof of a missing collection is never.
EntryExists(Api, Endpoint, Entry, EntryParam) ==
  LET ep == ApiGetEndpoint(Api, Endpoint) IN
  Entry \in DOMAIN ep /\ EntryParam \in DOMAIN ep[Entry]

Ok(v) == [ok |-> v]

Err(kind) == [error |-> kind]

\* Variant: an entry name that is no key falls through to the endpoint level.
resolveProvider_EntryFallsThrough(Api, Endpoint, Entry, EntryParam, DefaultSchemaType) ==
  IF ~EndpointExists(Api, Endpoint) THEN Err("UnknownEndpoint")
  ELSE IF Entry = "body"
  THEN Ok(ApiGetEndpointBodySchemaType(Api, Endpoint, DefaultSchemaType))
  ELSE IF ~EntryExists(Api, Endpoint, Entry, EntryParam)
  THEN Ok(ApiGetEndpointSchemaType(Api, Endpoint, DefaultSchemaType))
  ELSE Ok(ApiGetEndpointEntrySchemaType(Api, Endpoint, Entry, EntryParam,
                                        DefaultSchemaType))

\* Variant: an endpoint name that is no key resolves at the description level.
resolveProvider_EndpointFallsThrough(Api, Endpoint, Entry, EntryParam, DefaultSchemaType) ==
  IF ~EndpointExists(Api, Endpoint)
  THEN Ok(ApiGetSchemaType(Api, DefaultSchemaType))
  ELSE IF Entry = "body"
  THEN Ok(ApiGetEndpointBodySchemaType(Api, Endpoint, DefaultSchemaType))
  ELSE IF ~EntryExists(Api, Endpoint, Entry, EntryParam) THEN Err("UnknownEntry")
  ELSE Ok(ApiGetEndpointEntrySchemaType(Api, Endpoint, Entry, EntryParam,
                                        DefaultSchemaType))

\* The provider in force at a location, or the constraint that rejects it.
resolveProvider(Api, Endpoint, Entry, EntryParam, DefaultSchemaType) ==
  IF ~EndpointExists(Api, Endpoint) THEN Err("UnknownEndpoint")
  ELSE IF Entry = "body"
  THEN Ok(ApiGetEndpointBodySchemaType(Api, Endpoint, DefaultSchemaType))
  ELSE IF ~EntryExists(Api, Endpoint, Entry, EntryParam) THEN Err("UnknownEntry")
  ELSE Ok(ApiGetEndpointEntrySchemaType(Api, Endpoint, Entry, EntryParam,
                                        DefaultSchemaType))

(***************************************************************************)
(* Provider registry                                                       *)
(***************************************************************************)

\* Provider descriptors; their projections are opaque to the resolver.
Providers == {[name |-> "A"], [name |-> "B"]}

\* Bound on the number of ids the registry holds.
MaxProviders == 2

projectInput(provider, schema) ==
  [shape |-> "input", by |-> provider.name, of |-> schema]

projectOutput(provider, schema) ==
  [shape |-> "output", by |-> provider.name, of |-> schema]

\* Variant: an id that is already bound keeps its first provider.
register_FirstWriteWins(reg, id, provider) == reg @@ (id :> provider)

register(reg, id, provider) == (id :> provider) @@ reg

lookup(reg, id) ==
  IF id \in DOMAIN reg
  THEN Ok(reg[id])
  ELSE [error |-> "ProviderNotFound", id |-> id]

InferInputTypeFromSchema(Provider, Schema) ==
  LET found == lookup(registry, Provider) IN
  IF "ok" \in DOMAIN found THEN Ok(projectInput(found.ok, Schema)) ELSE found

InferOutputTypeFromSchema(Provider, Schema) ==
  LET found == lookup(registry, Provider) IN
  IF "ok" \in DOMAIN found THEN Ok(projectOutput(found.ok, Schema)) ELSE found

(***************************************************************************)
(* Shape inference                                                         *)
(***************************************************************************)

\* NonNullable<S["_provider"]>
ProviderOf(schemaType) == Index(schemaType, "_provider")

\* Variant: the body parameter object itself is projected, not its schema.
ApiInferEndpointBody_WholeParameter(Api, Endpoint, DefaultSchemaType) ==
  LET Param == ApiGetEndpointBody(Api, Endpoint) IN
  IF ExtendsApiParameter(Param)
  THEN InferInputTypeFromSchema(
         ProviderOf(ApiGetEndpointBodySchemaType(Api, Endpoint, DefaultSchemaType)),
         Param)
  ELSE InferInputTypeFromSchema(
         ProviderOf(ApiGetEndpointSchemaType(Api, Endpoint, DefaultSchemaType)),
         ApiGetEndpointBody(Api, Endpoint))

ApiInferEndpointBody(Api, Endpoint, DefaultSchemaType) ==
  LET Param == ApiGetEndpointBody(Api, Endpoint) IN
  IF ExtendsApiParameter(Param)
  THEN InferInputTypeFromSchema(
         ProviderOf(ApiGetEndpointBodySchemaType(Api, Endpoint, DefaultSchemaType)),
         Param.schema)
  ELSE InferInputTypeFromSchema(
         ProviderOf(ApiGetEndpointSchemaType(Api, Endpoint, DefaultSchemaType)),
         ApiGetEndpointBody(Api, Endpoint))

\* Variant: the provider is resolved at the endpoint level, past the
\* parameter's own declaration.
ApiInferEndpointInputEntry_EndpointProvider(Api, Endpoint, Entry, EntryParam, DefaultSchemaType) ==
  LET ComputedEntryParam == ApiGetEndpoint(Api, Endpoint)[Entry][EntryParam] IN
  IF ExtendsApiParameter(ComputedEntryParam)
  THEN InferInputTypeFromSchema(
         ProviderOf(ApiGetEndpointSchemaType(Api, Endpoint, DefaultSchemaType)),
         ComputedEntryParam.schema)
  ELSE InferInputTypeFromSchema(
         ProviderOf(ApiGetEndpointSchemaType(Api, Endpoint, DefaultSchemaType)),
         ComputedEntryParam)

ApiInferEndpointInputEntry(Api, Endpoint, Entry, EntryParam, DefaultSchemaType) ==
  LET ComputedEntryParam == ApiGetEndpoint(Api, Endpoint)[Entry][EntryParam] IN
  IF ExtendsApiParameter(ComputedEntryParam)
  THEN InferInputTypeFromSchema(
         ProviderOf(ApiGetEndpointEntrySchemaType(Api, Endpoint, Entry,
                                                  EntryParam, DefaultSchemaType)),
         ComputedEntryParam.schema)
  ELSE InferInputTypeFromSchema(
         ProviderOf(ApiGetEndpointEntrySchemaType(Api, Endpoint, Entry,
                                                  EntryParam, DefaultSchemaType)),
         ComputedEntryParam)

\* Variant: a resolved provider that is not registered is replaced by the
\* default schema type's provider.
ApiInferEndpointOutputEntry_DefaultOnMiss(Api, Endpoint, Entry, EntryParam, DefaultSchemaType) ==
  LET ComputedEntryParam == ApiGetEndpoint(Api, Endpoint)[Entry][EntryParam]
      Resolved == ProviderOf(ApiGetEndpointEntrySchemaType(Api, Endpoint, Entry,
                                                           EntryParam, DefaultSchemaType))
      Provider == IF Resolved \in DOMAIN registry
                  THEN Resolved
                  ELSE ProviderOf(DefaultSchemaType)
  IN
  IF ExtendsApiParameter(ComputedEntryParam)
  THEN InferOutputTypeFromSchema(Provider, ComputedEntryParam.schema)
  ELSE InferOutputTypeFromSchema(Provider, ComputedEntryParam)

ApiInferEndpointOutputEntry(Api, Endpoint, Entry, EntryParam, DefaultSchemaType) ==
  LET ComputedEntryParam == ApiGetEndpoint(Api, Endpoint)[Entry][EntryParam] IN
  IF ExtendsApiParameter(ComputedEntryParam)
  THEN InferOutputTypeFromSchema(
         ProviderOf(ApiGetEndpointEntrySchemaType(Api, Endpoint, Entry,
                                                  EntryParam, DefaultSchemaType)),
         ComputedEntryParam.schema)
  ELSE InferOutputTypeFromSchema(
         ProviderOf(ApiGetEndpointEntrySchemaType(Api, Endpoint, Entry,
                                                  EntryParam, DefaultSchemaType)),
         ComputedEntryParam)

ApiInferEndpointInputParam(Api, Endpoint, PathParam, DefaultSchemaType) ==
  ApiInferEndpointInputEntry(Api, Endpoint, "params", PathParam, DefaultSchemaType)

ApiInferEndpointInputQuery(Api, Endpoint, QueryParam, DefaultSchemaType) ==
  ApiInferEndpointInputEntry(Api, Endpoint, "query", QueryParam, DefaultSchemaType)

ApiInferEndpointInputHeader(Api, Endpoint, HeaderParam, DefaultSchemaType) ==
  ApiInferEndpointInputEntry(Api, Endpoint, "headers", HeaderParam, DefaultSchemaType)

ApiInferEndpointInputCookie(Api, Endpoint, CookieParam, DefaultSchemaType) ==
  ApiInferEndpointInputEntry(Api, Endpoint, "cookies", CookieParam, DefaultSchemaType)

ApiInferEndpointInputResponse(Api, Endpoint, StatusCode, DefaultSchemaType) ==
  ApiInferEndpointInputEntry(Api, Endpoint, "responses", StatusCode, DefaultSchemaType)

ApiInferEndpointOutputParam(Api, Endpoint, PathParam, DefaultSchemaType) ==
  ApiInferEndpointOutputEntry(Api, Endpoint, "params", PathParam, DefaultSchemaType)

ApiInferEndpointOutputQuery(Api, Endpoint, QueryParam, DefaultSchemaType) ==
  ApiInferEndpointOutputEntry(Api, Endpoint, "query", QueryParam, DefaultSchemaType)

ApiInferEndpointOutputHeader(Api, Endpoint, HeaderParam, DefaultSchemaType) ==
  ApiInferEndpointOutputEntry(Api, Endpoint, "headers", HeaderParam, DefaultSchemaType)

ApiInferEndpointOutputCookie(Api, Endpoint, CookieParam, DefaultSchemaType) ==
  ApiInferEndpointOutputEntry(Api, Endpoint, "cookies", CookieParam, DefaultSchemaType)

ApiInferEndpointOutputResponse(Api, Endpoint, StatusCode, DefaultSchemaType) ==
  ApiInferEndpointOutputEntry(Api, Endpoint, "responses", StatusCode, DefaultSchemaType)

\* The input shape of a location, or the constraint that rejects it.
inputShapeOf(Api, Endpoint, Entry, EntryParam, DefaultSchemaType) ==
  IF ~EndpointExists(Api, Endpoint) THEN Err("UnknownEndpoint")
  ELSE IF Entry = "body"
  THEN ApiInferEndpointBody(Api, Endpoint, DefaultSchemaType)
  ELSE IF ~EntryExists(Api, Endpoint, Entry, EntryParam) THEN Err("UnknownEntry")
  ELSE CASE Entry = "params" ->
              ApiInferEndpointInputParam(Api, Endpoint, EntryParam, DefaultSchemaType)
         [] Entry = "query" ->
              ApiInferEndpointInputQuery(Api, Endpoint, EntryParam, DefaultSchemaType)
         [] Entry = "headers" ->
              ApiInferEndpointInputHeader(Api, Endpoint, EntryParam, DefaultSchemaType)
         [] Entry = "cookies" ->
              ApiInferEndpointInputCookie(Api, Endpoint, EntryParam, DefaultSchemaType)
         [] Entry = "responses" ->
              ApiInferEndpointInputResponse(Api, Endpoint, EntryParam, DefaultSchemaType)

\* The output shape of a named entry, or the constraint that rejects it.
\* The source infers no output shape for a body.
outputShapeOf(Api, Endpoint, Entry, EntryParam, DefaultSchemaType) ==
  IF ~EndpointExists(Api, Endpoint) THEN Err("UnknownEndpoint")
  ELSE IF ~EntryExists(Api, Endpoint, Entry, EntryParam) THEN Err("UnknownEntry")
  ELSE CASE Entry = "params" ->
              ApiInferEndpointOutputParam(Api, Endpoint, EntryParam, DefaultSchemaType)
         [] Entry = "query" ->
              ApiInferEndpointOutputQuery(Api, Endpoint, EntryParam, DefaultSchemaType)
         [] Entry = "headers" ->
              ApiInferEndpointOutputHeader(Api, Endpoint, EntryParam, DefaultSchemaType)
         [] Entry = "cookies" ->
              ApiInferEndpointOutputCookie(Api, Endpoint, EntryParam, DefaultSchemaType)
         [] Entry = "responses" ->
              ApiInferEndpointOutputResponse(Api, Endpoint, EntryParam, DefaultSchemaType)

(***************************************************************************)
(* Behaviour                                                               *)
(***************************************************************************)

\* Default schema types passed by callers.
CallDefaults == {ApiTypeScriptSchema, [_provider |-> "zod"]}

\* The named-entry locations callers ask about.
EntryLocations == ApiEntry \X CallParamNames

\* All locations callers ask about; a body has no entry name.
CallLocations == {<<"body", "-">>} \cup EntryLocations

\* No operation has just finished.
Idle == [op |-> "idle"]

\* Values of the history variable `first`.
Untracked == [op |-> "untracked"]

NoCallYet == [op |-> "none"]

Call(op, Endpoint, loc, DefaultSchemaType, result) ==
  [op |-> op, endpoint |-> Endpoint, entry |-> loc[1], param |-> loc[2],
   default |-> DefaultSchemaType, result |-> result]

\* `first` after a query has finished: the first query is kept, and it is
\* noted whether a different query has finished since.
FirstAfter(call) ==
  IF first = Untracked THEN first
  ELSE IF first = NoCallYet
  THEN [op |-> "query", call |-> call, interleaved |-> FALSE]
  ELSE [first EXCEPT !.interleaved = @ \/ call # first.call]

\* `first` after the registry has changed.
FirstReset == IF first = Untracked THEN Untracked ELSE NoCallYet

Init ==
  /\ api \in ApiSpecs
  /\ registry = EmptyObject
  /\ last = Idle
  /\ written = EmptyObject
  /\ first = Untracked

Register ==
  /\ last = Idle
  /\ \E id \in ProviderIds, provider \in Providers :
       /\ id \in DOMAIN registry \/ Cardinality(DOMAIN registry) < MaxProviders
       /\ registry' = register(registry, id, provider)
       /\ written' = (id :> provider) @@ written
       /\ last' = [op |-> "register", id |-> id, provider |-> provider,
                   replaced |-> Index(registry, id)]
  /\ first' = FirstReset
  /\ UNCHANGED api

Lookup ==
  /\ last = Idle
  /\ \E id \in ProviderIds :
       last' = [op |-> "lookup", id |-> id, result |-> lookup(registry, id)]
  /\ UNCHANGED <<api, registry, written, first>>

\* Variant: the resolved schema type is cached in the description's metadata.
ResolveProviderCall_CachesInDescription ==
  /\ last = Idle
  /\ \E Endpoint \in CallEndpointNames, loc \in CallLocations,
        DefaultSchemaType \in CallDefaults :
       LET result == resolveProvider(api, Endpoint, loc[1], loc[2],
                                     DefaultSchemaType)
       IN
       /\ last' = Call("resolveProvider", Endpoint, loc, DefaultSchemaType, result)
       /\ api' = IF "ok" \in DOMAIN result
                 THEN ("metadata" :> [description |-> "doc", schemaType |-> result.ok])
                        @@ api
                 ELSE api
  /\ first' = FirstAfter(last')
  /\ UNCHANGED <<registry, written>>

ResolveProviderCall ==
  /\ last = Idle
  /\ \E Endpoint \in CallEndpointNames, loc \in CallLocations,
        DefaultSchemaType \in CallDefaults :
       last' = Call("resolveProvider", Endpoint, loc, DefaultSchemaType,
                    resolveProvider(api, Endpoint, loc[1], loc[2],
                                    DefaultSchemaType))
  /\ first' = FirstAfter(last')
  /\ UNCHANGED <<api, registry, written>>

\* Variant: a provider id that is not registered gets bound on the way.
InputShapeCall_RegistersOnMiss ==
  /\ last = Idle
  /\ \E Endpoint \in CallEndpointNames, loc \in CallLocations,
        DefaultSchemaType \in CallDefaults :
       LET result == inputShapeOf(api, Endpoint, loc[1], loc[2],
                                  DefaultSchemaType)
       IN
       /\ last' = Call("inputShapeOf", Endpoint, loc, DefaultSchemaType, result)
       /\ registry' = IF "id" \in DOMAIN result
                      THEN register(registry, result.id, [name |-> "A"])
                      ELSE registry
  /\ first' = FirstAfter(last')
  /\ UNCHANGED <<api, written>>

InputShapeCall ==
  /\ last = Idle
  /\ \E Endpoint \in CallEndpointNames, loc \in CallLocations,
        DefaultSchemaType \in CallDefaults :
       last' = Call("inputShapeOf", Endpoint, loc, DefaultSchemaType,
                    inputShapeOf(api, Endpoint, loc[1], loc[2],
                                 DefaultSchemaType))
  /\ first' = FirstAfter(last')
  /\ UNCHANGED <<api, registry, written>>

OutputShapeCall ==
  /\ last = Idle
  /\ \E Endpoint \in CallEndpointNames, loc \in EntryLocations,
        DefaultSchemaType \in CallDefaults :
       last' = Call("outputShapeOf", Endpoint, loc, DefaultSchemaType,
                    outputShapeOf(api, Endpoint, loc[1], loc[2],
                                  DefaultSchemaType))
  /\ first' = FirstAfter(last')
  /\ UNCHANGED <<api, registry, written>>

\* The caller takes the result of the finished operation.
Return ==
  /\ last # Idle
  /\ last' = Idle
  /\ UNCHANGED <<api, registry, written, first>>

Next ==
  \/ Register
  \/ Lookup
  \/ ResolveProviderCall
  \/ InputShapeCall
  \/ OutputShapeCall
  \/ Return

Spec == Init /\ [][Next]_vars

\* Descriptions of the runs that keep the history of the first query: the
\* description declares "io-ts", the endpoint's metadata declares nothing,
\* and the endpoint holds no location, a body or a path parameter, either
\* a bare schema or a parameter object declaring "zod".
IdempotenceApis ==
  {a \in ApiSpecs :
     LET ep == a.endpoints["getUser"] IN
     /\ Index(a, "metadata") = [description |-> "doc",
                                schemaType |-> [_provider |-> "io-ts"]]
     /\ Index(ep, "metadata") = [description |-> "doc"]
     /\ DOMAIN ep \subseteq {"metadata", "body", "params"}
     /\ \A v \in {Index(ep, "body")}
               \cup (IF "params" \in DOMAIN ep THEN {ep.params["id"]} ELSE {}) :
          \/ v = Undefined
          \/ v \in Schemas
          \/ Index(v, "metadata") = [description |-> "doc",
                                     schemaType |-> [_provider |-> "zod"]]}

InitIdempotence ==
  /\ api \in IdempotenceApis
  /\ registry = EmptyObject
  /\ last = Idle
  /\ written = EmptyObject
  /\ first = NoCallYet

\* The same operations, with the history of the first query kept.
IdempotenceSpec == InitIdempotence /\ [][Next]_vars

(***************************************************************************)
(* Properties                                                              *)
(***************************************************************************)

TypeOK ==
  /\ api \in ApiSpecs
  /\ DOMAIN registry \subseteq ProviderIds
  /\ last.op \in {"idle", "register", "lookup", "resolveProvider",
                  "inputShapeOf", "outputShapeOf"}

\* The finished operation is one of the three location queries.
IsQuery == last.op \in {"resolveProvider", "inputShapeOf", "outputShapeOf"}

\* The query named an endpoint of the description.
OnEndpoint == IsQuery /\ last.endpoint \in DOMAIN api.endpoints

\* The query named an entry of a name-keyed collection of that endpoint.
OnEntry ==
  /\ OnEndpoint
  /\ last.entry \in ApiEntry
  /\ last.entry \in DOMAIN api.endpoints[last.endpoint]
  /\ last.param \in DOMAIN api.endpoints[last.endpoint][last.entry]

\* The query named the body of that endpoint.
OnBody == OnEndpoint /\ last.entry = "body"

\* The value held at the queried location.
LocationValue ==
  IF last.entry = "body"
  THEN Index(api.endpoints[last.endpoint], "body")
  ELSE api.endpoints[last.endpoint][last.entry][last.param]

\* An object whose metadata sets schemaType.
Declares(obj) ==
  "metadata" \in DOMAIN obj /\ "schemaType" \in DOMAIN obj.metadata

\* The first declared schemaType along a chain of objects, else the default.
FirstDeclared(chain, default) ==
  IF \E i \in DOMAIN chain : Declares(chain[i])
  THEN LET i == CHOOSE i \in DOMAIN chain :
                  /\ Declares(chain[i])
                  /\ \A j \in DOMAIN chain : Declares(chain[j]) => i <= j
       IN chain[i].metadata.schemaType
  ELSE default

\* What resolution at the endpoint level yields for the query.
EndpointLevel ==
  FirstDeclared(<<api.endpoints[last.endpoint], api>>, last.default)

\* C1: for an existing entry of a name-keyed collection, resolveProvider
\* returns the first declared schemaType in the order parameter, endpoint,
\* description, and the default only when none of the three declares one.
C1_CascadePrecedence ==
  (last.op = "resolveProvider" /\ OnEntry) =>
    last.result =
      Ok(FirstDeclared(<<LocationValue, api.endpoints[last.endpoint], api>>,
                       last.default))

\* Parameter, endpoint and description declare three distinct ids and the
\* parameter's id is returned.
C1_Witness ==
  /\ last.op = "resolveProvider"
  /\ OnEntry
  /\ Declares(LocationValue)
  /\ Declares(api.endpoints[last.endpoint])
  /\ Declares(api)
  /\ Cardinality({LocationValue.metadata.schemaType,
                  api.endpoints[last.endpoint].metadata.schemaType,
                  api.metadata.schemaType}) = 3
  /\ last.result = Ok(LocationValue.metadata.schemaType)

\* C2: for an existing endpoint, resolveProvider on the body never signals
\* an error; a declared body whose metadata sets schemaType yields that id,
\* and any other body, an absent one included, yields the endpoint-level
\* resolution.
C2_BodyFallsToEndpoint ==
  (last.op = "resolveProvider" /\ OnBody) =>
    /\ "ok" \in DOMAIN last.result
    /\ last.result =
         Ok(IF Declares(LocationValue)
            THEN LocationValue.metadata.schemaType
            ELSE EndpointLevel)

\* No body is declared, the endpoint declares an id other than the default,
\* and that id is returned.
C2_Witness ==
  /\ last.op = "resolveProvider"
  /\ OnBody
  /\ LocationValue = Undefined
  /\ Declares(api.endpoints[last.endpoint])
  /\ api.endpoints[last.endpoint].metadata.schemaType # last.default
  /\ last.result = Ok(api.endpoints[last.endpoint].metadata.schemaType)

\* C3: on an existing endpoint, a query of a name-keyed entry kind with a
\* name that is no key of that collection signals UnknownEntry and yields
\* neither a provider id nor a shape.
C3_UnknownEntry ==
  (OnEndpoint /\ last.entry \in ApiEntry /\ ~OnEntry) =>
    last.result = Err("UnknownEntry")

\* The collection exists and holds another name, the endpoint declares a
\* schemaType, and the query of the unknown name signalled UnknownEntry.
C3_Witness ==
  /\ OnEndpoint
  /\ last.entry \in DOMAIN api.endpoints[last.endpoint]
  /\ last.param \notin DOMAIN api.endpoints[last.endpoint][last.entry]
  /\ Declares(api.endpoints[last.endpoint])
  /\ last.result = Err("UnknownEntry")

\* C4: resolveProvider with an endpoint name that is no key of the
\* description's endpoints signals UnknownEndpoint, whatever the entry
\* kind, the entry name and the default are.
C4_UnknownEndpoint ==
  (last.op = "resolveProvider" /\ ~OnEndpoint) =>
    last.result = Err("UnknownEndpoint")

\* The unknown endpoint was asked for its body while the description
\* declares a schemaType, and UnknownEndpoint was signalled.
C4_Witness ==
  /\ last.op = "resolveProvider"
  /\ last.endpoint \notin DOMAIN api.endpoints
  /\ last.entry = "body"
  /\ Declares(api)
  /\ last.result = Err("UnknownEndpoint")

\* The resolution of the queried location, as resolveProvider returns it.
Resolved ==
  resolveProvider(api, last.endpoint, last.entry, last.param, last.default)

\* The finished operation is a shape query.
IsShapeQuery == last.op \in {"inputShapeOf", "outputShapeOf"}

\* The operand of the projection at the queried location.
Operand ==
  IF "schema" \in DOMAIN LocationValue
  THEN LocationValue.schema
  ELSE LocationValue

\* C5: a shape returned by inputShapeOf (outputShapeOf) is the input
\* (output) projection made by the provider registered under the id that
\* resolveProvider returns for the same location and default, for named
\* entries and for a declared or an absent body.
C5_ShapeByResolvedProvider ==
  (IsShapeQuery /\ "ok" \in DOMAIN last.result) =>
    /\ "ok" \in DOMAIN Resolved
    /\ Resolved.ok._provider \in DOMAIN registry
    /\ last.result.ok.by = registry[Resolved.ok._provider].name
    /\ last.result.ok.shape =
         (IF last.op = "inputShapeOf" THEN "input" ELSE "output")

\* A parameter declares an id of its own, the endpoint another one, both
\* are registered with different providers, and the input shape is made by
\* the provider of the parameter's id.
C5_Witness ==
  /\ last.op = "inputShapeOf"
  /\ OnEntry
  /\ Declares(LocationValue)
  /\ Declares(api.endpoints[last.endpoint])
  /\ LET own == LocationValue.metadata.schemaType._provider
         outer == api.endpoints[last.endpoint].metadata.schemaType._provider
     IN
     /\ own # outer
     /\ {own, outer} \subseteq DOMAIN registry
     /\ registry[own] # registry[outer]
     /\ "ok" \in DOMAIN last.result
     /\ last.result.ok.by = registry[own].name

\* C6: the operand of the projection is the schema of the parameter object
\* held at the location, and the value held there itself when it is no
\* parameter object (an absent body included); the shape returned is the
\* projection of that operand by a registered provider, unmodified.
C6_OperandAndPassThrough ==
  (IsShapeQuery /\ "ok" \in DOMAIN last.result) =>
    /\ last.result.ok.of = Operand
    /\ \E id \in DOMAIN registry :
         last.result.ok =
           (IF last.op = "inputShapeOf"
            THEN projectInput(registry[id], Operand)
            ELSE projectOutput(registry[id], Operand))

\* A named entry holds a bare schema and the output shape is the projection
\* of that very value.
C6_Witness ==
  /\ last.op = "outputShapeOf"
  /\ OnEntry
  /\ LocationValue \in Schemas
  /\ "ok" \in DOMAIN last.result
  /\ last.result.ok.of = LocationValue

\* C7: when the id resolved for a location has no entry in the registry, a
\* shape query signals ProviderNotFound carrying that id and yields no
\* shape.
C7_ProviderNotFound ==
  (IsShapeQuery /\ (OnBody \/ OnEntry)
     /\ Resolved.ok._provider \notin DOMAIN registry) =>
    last.result = [error |-> "ProviderNotFound", id |-> Resolved.ok._provider]

\* The default's provider is registered, the resolved id is another one
\* that is not, and ProviderNotFound carries the resolved id.
C7_Witness ==
  /\ IsShapeQuery
  /\ OnEntry
  /\ last.default._provider \in DOMAIN registry
  /\ Resolved.ok._provider \notin DOMAIN registry
  /\ last.result = [error |-> "ProviderNotFound", id |-> Resolved.ok._provider]

\* The outcome of looking an id up, from the history of register calls.
Bound(id) ==
  IF id \in DOMAIN written
  THEN Ok(written[id])
  ELSE [error |-> "ProviderNotFound", id |-> id]

\* C8: while the description and the registry stay as they are, a query
\* with the arguments of an earlier query returns what that query
\* returned, whatever queries finished in between.
C8_Idempotent ==
  (IsQuery /\ first.op = "query"
     /\ [last EXCEPT !.result = first.call.result] = first.call) =>
    last.result = first.call.result

\* The first query, an input shape query that returned a shape, is
\* repeated after a different query and returns the same shape.
C8_Witness ==
  /\ last.op = "inputShapeOf"
  /\ "ok" \in DOMAIN last.result
  /\ first.op = "query"
  /\ first.interleaved
  /\ last = first.call

\* C9: lookup returns the provider of the most recent register call for
\* the id, signals ProviderNotFound for an id never registered, and is
\* not changed by a register call for another id.
C9_LastWriteWins ==
  /\ \A id \in ProviderIds : lookup(registry, id) = Bound(id)
  /\ last.op = "lookup" => last.result = Bound(last.id)

\* A register call has replaced a different provider of its id while
\* another id stays bound, and lookup returns the new provider.
C9_Witness ==
  /\ last.op = "register"
  /\ last.replaced \notin {Undefined, last.provider}
  /\ DOMAIN registry # {last.id}
  /\ lookup(registry, last.id) = Ok(last.provider)

\* C10: no step changes the description, and only a register call changes
\* the registry: queries and lookups leave both as they are, whether they
\* return a result or signal an error.
C10_QueriesMutateNothing ==
  [][/\ api' = api
     /\ registry' # registry => last'.op = "register"]_vars

\* A shape query has signalled an error while the registry is populated.
C10_Witness ==
  /\ IsShapeQuery
  /\ "error" \in DOMAIN last.result
  /\ registry # EmptyObject

\* An object whose metadata is present but sets no schemaType.
HasBareMetadata(obj) == "metadata" \in DOMAIN obj /\ ~Declares(obj)

\* The object with such metadata taken away.
WithoutBareMetadata(obj) ==
  IF HasBareMetadata(obj)
  THEN [k \in DOMAIN obj \ {"metadata"} |-> obj[k]]
  ELSE obj

\* The description with the bare metadata of the queried location, of its
\* endpoint, of the description, or of all three taken away.
BareMetadataRemovals ==
  LET e == last.endpoint
      atLocation ==
        IF last.entry = "body"
        THEN IF "body" \in DOMAIN api.endpoints[e]
             THEN [api EXCEPT !.endpoints[e].body = WithoutBareMetadata(@)]
             ELSE api
        ELSE [api EXCEPT !.endpoints[e][last.entry][last.param] =
                           WithoutBareMetadata(@)]
      atEndpoint == [api EXCEPT !.endpoints[e] = WithoutBareMetadata(@)]
      atDescription == WithoutBareMetadata(api)
      atAll ==
        WithoutBareMetadata(
          [atLocation EXCEPT !.endpoints[e] = WithoutBareMetadata(@)])
  IN {atLocation, atEndpoint, atDescription, atAll}

\* C11: at the parameter or body, the endpoint and the description level,
\* metadata that is present but sets no schemaType is treated like absent
\* metadata: resolveProvider returns what it returns for the description
\* with that metadata removed.
C11_BareMetadataIsAbsent ==
  (last.op = "resolveProvider" /\ (OnBody \/ OnEntry)) =>
    \A without \in BareMetadataRemovals :
      resolveProvider(without, last.endpoint, last.entry, last.param,
                      last.default) = last.result

\* The parameter and its endpoint carry metadata without schemaType, the
\* description declares an id other than the default, and that id is
\* returned.
C11_Witness ==
  /\ last.op = "resolveProvider"
  /\ OnEntry
  /\ HasBareMetadata(LocationValue)
  /\ HasBareMetadata(api.endpoints[last.endpoint])
  /\ Declares(api)
  /\ api.metadata.schemaType # last.default
  /\ last.result = Ok(api.metadata.schemaType)
====
